---- MODULE Spec2Model ----
(***************************************************************************)
(* Cash-Up reward ledger (server/app/main.py): photo submission, bin scan  *)
(* activation, coupon debit and the jackpot draw, over the tables the      *)
(* handlers read and write.                                                *)
(*                                                                         *)
(* Spec        : every request runs to its commit before the next begins. *)
(* SpecJackpot : submissions and draws of every account, across a change   *)
(*               of ISO week.                                              *)
(* SpecConc    : two request handlers interleave statement by statement;   *)
(*               a handler may also crash before its commit.               *)
(* SpecAudit   : the requests of one user, the response of every request  *)
(*               kept, rejections included.                                *)
(* SpecGates   : submissions only, up to each gate of upload_photo.        *)
(* SpecDedup   : one user submits until the dedup window of 20 is full.    *)
(***************************************************************************)
EXTENDS Integers, Sequences, FiniteSets, Bags, TLC

\* ------------------------------------------------------------------ bounds
MaxPhotos == 3
MaxCoupons == 1
MaxDraws == 1
MaxTicks == 2
\* photos of the interleaved handlers, submitted or in flight
MaxConcPhotos == 2
\* rejected requests that leave a lazily created summary row behind
MaxLazyRows == 1
\* minutes the clock advances in one Tick
TickMinutes == 25
\* photos of the audited user
MaxAuditPhotos == 3
\* photos and clock advances of the user who fills the dedup window
MaxDedupPhotos == 22
MaxDedupTicks == 4
\* photos and clock advances of the user whose photo goes stale
MaxStalePhotos == 2
MaxStaleTicks == 4
\* photos and coupons of the user who redeems twice
MaxCodePhotos == 2
MaxCodeCoupons == 2
\* image files and photos of the users who also send unreadable bytes
MaxFiles == 3
\* photos of the users who submit at both ends of the year
MaxYearPhotos == 2
\* photos of the user who submits to the festival of negative points
MaxPoolPhotos == 2
\* photos of the users who run into the gates of a submission
MaxGatePhotos == 5

\* ------------------------------------------------------- program constants
PENDING_ACTIVATION_MINUTES == 30
RateLimitCount == 5
RateWindowMinutes == 1
DedupWindow == 20
DedupThreshold == 5
\* Asia/Seoul is UTC+9 all year
KstOffsetMinutes == 540
MinutesPerDay == 1440
MinutesPerWeek == 10080

PHOTO_STATUS_PENDING == "PENDING"
PHOTO_STATUS_ACTIVE == "ACTIVE"
COUPON_STATUS_ISSUED == "ISSUED"

NULL == "NULL"

\* ------------------------------------------------------------ the universe
Users == {"alice", "bob"}
Festivals == {"fest1", "fest2", "fest3", "fest4"}
Procs == {"h1", "h2"}
\* who takes part in which festival: everybody uploads, alice also scans
\* bins and redeems coupons
Accounts == {<<"alice", "fest1">>, <<"bob", "fest1">>, <<"bob", "fest2">>}
Uploaders == {<<"alice", "fest1">>, <<"bob", "fest1">>}
Redeemers == {<<"alice", "fest1">>}
\* the accounts of the interleaved handlers
ConcAccounts == {<<"alice", "fest2">>, <<"bob", "fest2">>}
ConcRedeemers == {<<"alice", "fest2">>}

\* Rows of the Festival table as create_festival writes them (budget,
\* perUserDailyCap, perPhotoPoint are its integer payload fields). fest3 is
\* the festival of the rate limit scenario (budget 1,000,000, cap 500,000,
\* 1,000 points a photo), in units of 1,000 points.  fest4 was created with
\* a negative perPhotoPoint, which create_festival stores as it comes.
Festival ==
  [f \in Festivals |->
     IF f = "fest1"
     THEN [budget |-> 7, per_user_daily_cap |-> 3, per_photo_point |-> 2]
     ELSE IF f = "fest2"
     THEN [budget |-> 4, per_user_daily_cap |-> 3, per_photo_point |-> 3]
     ELSE IF f = "fest3"
     THEN [budget |-> 1000, per_user_daily_cap |-> 500, per_photo_point |-> 1]
     ELSE [budget |-> 7, per_user_daily_cap |-> 3, per_photo_point |-> -3]]

\* The clock starts shortly before midnight (KST), in minutes since Monday
\* 2024-01-01 00:00 KST: Saturday 23:40 of ISO week 1 of 2024, where the next
\* Tick starts a new day of the same week, and for the jackpot Sunday 23:40,
\* where the next Tick starts a new day and a new ISO week.
StartTimes == {8620}
\* From Saturday 2024-01-06 to Monday 2024-12-30, the same time of day: 51
\* weeks and 2 days.
YearEndMinutes == 516960
JackpotStartTimes == {10060}

\* Image fingerprints: compute_image_hash returns an 8x8 average hash; a hash
\* is the set of its bits that are 1, out of bits 1..64.
Images == {{}, 1..6}
\* the image the interleaved submissions carry
ConcImages == {{}}

\* Coupon amounts a request may carry (int(payload["amount"])).
Amounts == {-1, 2}
\* Last six digits of time_ns() when a coupon code is built.
NsDigits == {123456}

VARIABLES
  now,        \* wall clock, minutes since Monday 2024-01-01 00:00 KST
  ticks,      \* how often the clock has advanced
  photos,     \* TrashPhoto rows of each user, in insertion order
  summaries,  \* UserDailySummary rows of each (user, festival, date), in insertion order
  coupons,    \* Coupon rows (a bag)
  pools,      \* JackpotPool rows of each festival, in insertion order
  entries,    \* JackpotEntry rows, in insertion order
  winners,    \* JackpotWinner rows, in insertion order
  scans,      \* BinScan rows (a bag)
  drawLog,    \* per festival: committed pool resets and winner credits
  lazy,       \* rejected requests so far that inserted a summary row
  sess,       \* per handler: the request in flight and its session state
  last,       \* the request that committed last, and its response
  audit,      \* whether `last` also keeps the response of a rejected request
  files       \* how many image files UPLOAD_DIR holds

tables == <<photos, summaries, coupons, pools, entries, winners, scans, drawLog>>
vars == <<now, ticks, photos, summaries, coupons, pools, entries, winners, scans,
          drawLog, lazy, sess, last, audit, files>>

\* ------------------------------------------------------------------ helpers
Max(a, b) == IF a >= b THEN a ELSE b

RECURSIVE SumOver(_, _)
\* Sum of val[i] over the finite index set I.
SumOver(I, val) ==
  IF I = {} THEN 0
  ELSE LET i == CHOOSE x \in I : TRUE IN val[i] + SumOver(I \ {i}, val)

Indices(s) == 1..Len(s)

\* int(x) of Python for the rational num/den: truncation towards zero.
TruncDiv(num, den) ==
  IF num >= 0 THEN num \div den ELSE -((-num) \div den)

\* -------------------------------------------------------------------- clock
\* datetime.now(KST).strftime("%Y-%m-%d"): the calendar day, as the number of
\* whole days since 2024-01-01.
day_of(t) == t \div MinutesPerDay
get_today == day_of(now)

\* datetime.utcnow(), in minutes on the same axis.
utcnow == now - KstOffsetMinutes

\* now_kst.year for a time in 2024 or 2025: 2024 is a leap year.
DaysIn2024 == 366
calendar_year(t) == IF day_of(t) < DaysIn2024 THEN 2024 ELSE 2025

\* now_kst.isocalendar()[1] for a time in 2024 or 2025: the first ISO week of
\* 2024 starts on Monday 2024-01-01 and the ISO year 2024 has 52 weeks, so
\* the week of Monday 2024-12-30 is week 1 (of the ISO year 2025).
IsoWeeksIn2024 == 52
iso_week(t) ==
  LET w == (t \div MinutesPerWeek) + 1
  IN IF w <= IsoWeeksIn2024 THEN w ELSE w - IsoWeeksIn2024

\* f"{now_kst.year}-W{now_kst.isocalendar()[1]:02d}": the calendar year and
\* the ISO week number.
week_key_at(t) == <<calendar_year(t), iso_week(t)>>
week_key == week_key_at(now)

\* the calendar days the clock can show
Days == {day_of(s + k * TickMinutes) : s \in StartTimes \cup JackpotStartTimes,
                                      k \in 0..MaxTicks}
        \cup {day_of(s + YearEndMinutes) : s \in StartTimes}
SummaryKeys == Users \X Festivals \X Days

\* ----------------------------------------------------------- DailySummary
\* the rows of (user, festival, date), oldest first
SummaryRows(S, u, f, d) == S[<<u, f, d>>]

\* A fresh UserDailySummary row: the three balances start at zero.
NewSummary == [total_pending |-> 0, total_active |-> 0, total_consumed |-> 0]

\* A faulty variant of ensure_summary: a row is inserted on every call.
ensure_summary_insert_always(S, u, f, d) ==
  [S EXCEPT ![<<u, f, d>>] = Append(@, NewSummary)]

\* ensure_summary: the table after the call (the row is inserted and
\* committed when the select finds none).
ensure_summary(S, u, f, d) ==
  IF SummaryRows(S, u, f, d) # <<>> THEN S
  ELSE [S EXCEPT ![<<u, f, d>>] = <<NewSummary>>]

\* the row a select ... .first() returns
first_summary(S, u, f, d) == SummaryRows(S, u, f, d)[1]

Total(row) == row.total_pending + row.total_active + row.total_consumed

\* --------------------------------------------------------------- the budget
PhotoIds(P) == UNION {{<<u, i>> : i \in Indices(P[u])} : u \in Users}
PhotoRow(P, id) == P[id[1]][id[2]]

get_budget_usage(P, C, f) ==
  LET ids == {id \in PhotoIds(P) : PhotoRow(P, id).festival_id = f}
      photo_points == SumOver(ids, [id \in ids |-> PhotoRow(P, id).points])
      rows == {c \in BagToSet(C) : c.festival_id = f}
      coupon_points == SumOver(rows, [c \in rows |-> c.amount * CopiesIn(c, C)])
  IN photo_points + coupon_points

\* A faulty variant of the check: the points asked for are left out.
budget_room_without_needed(used, needed, budget) == ~(used > budget)

\* ensure_budget_room raises exactly when this is FALSE.
budget_room(used, needed, budget) == ~(used + needed > budget)

\* -------------------------------------------------------------------- dedup
\* str(hash_val): the 64 bits as hexadecimal digits, four bits a digit,
\* the first bit the highest of the first digit.
HexLen == 16
str_hash(bits) ==
  [n \in 1..HexLen |->
     (IF 4 * n - 3 \in bits THEN 8 ELSE 0) + (IF 4 * n - 2 \in bits THEN 4 ELSE 0)
     + (IF 4 * n - 1 \in bits THEN 2 ELSE 0) + (IF 4 * n \in bits THEN 1 ELSE 0)]

\* the bits of one hexadecimal digit that are 1, the highest first (0..3)
HexBits ==
  [v \in 0..15 |-> {c \in 0..3 : (v \div (2 ^ (3 - c))) % 2 = 1}]

\* parse_hash / imagehash.hex_to_hash: the bits a hexadecimal string stands for
parse_hash(value) ==
  UNION {{4 * (n - 1) + b + 1 : b \in HexBits[value[n]]} : n \in DOMAIN value}

\* imagehash's a - b: the number of differing bits of the two 8x8 hashes.
hash_sub(a, b) == Cardinality((a \ b) \cup (b \ a))

\* the user's DedupWindow most recent photos (order_by created_at desc, limit)
recent_photos(P, u) ==
  {i \in Indices(P[u]) : Len(P[u]) - i < DedupWindow}

\* A faulty variant of the comparison: a distance of exactly DedupThreshold
\* passes.
is_duplicate_below_threshold(P, u, h) ==
  LET new_hash_obj == parse_hash(str_hash(h))
  IN \E i \in recent_photos(P, u) :
       hash_sub(new_hash_obj, parse_hash(P[u][i].hash)) < DedupThreshold

is_duplicate(P, u, h) ==
  LET new_hash_obj == parse_hash(str_hash(h))
  IN \E i \in recent_photos(P, u) :
       hash_sub(new_hash_obj, parse_hash(P[u][i].hash)) <= DedupThreshold

\* --------------------------------------------------------------- rate gate
\* A faulty variant of the count: every photo of the user, of whatever age.
recent_count_all_time(P, u, t) == Len(P[u])

recent_count(P, u, t) ==
  Cardinality({i \in Indices(P[u]) : P[u][i].created_at >= t - RateWindowMinutes})

\* ------------------------------------------------------------------ jackpot
NoDate == -1

\* JackpotPool(festival_id=...) as upload_photo creates it: the pool starts
\* at its seed; the contribution rate is the fraction rate_num / rate_den.
NewJackpotPool ==
  [current_amount |-> 1, seed_amount |-> 1, rate_num |-> 1, rate_den |-> 2,
   last_winner_id |-> NULL, last_draw_date |-> NoDate]

\* The pool row the repository's jackpot test starts from (current 50,000,
\* seed 10,000), in units of 10,000.
SeededPool ==
  [current_amount |-> 5, seed_amount |-> 1, rate_num |-> 1, rate_den |-> 2,
   last_winner_id |-> NULL, last_draw_date |-> NoDate]

\* JackpotEntry(user_id, festival_id, week_key): entry_count starts at 1.
NewJackpotEntry(u, f, wk) ==
  [user_id |-> u, festival_id |-> f, week_key |-> wk, entry_count |-> 1]

EntryRows(E, u, f, wk) ==
  {i \in Indices(E) : E[i].user_id = u /\ E[i].festival_id = f /\ E[i].week_key = wk}

FirstOf(I) == CHOOSE i \in I : \A j \in I : i <= j

\* int(festival.per_photo_point * jackpot_pool.contribution_rate)
contribution(point, pool) == TruncDiv(point * pool.rate_num, pool.rate_den)

\* ---------------------------------------------------------------- responses
\* What a committed request returned; None after a rejected request and
\* after a Tick.
Response(op, u, f) ==
  [op |-> op, user |-> u, festival |-> f, res |-> "ok", amount |-> 0, ids |-> {},
   users |-> <<>>, weights |-> <<>>, hash |-> {}]
None == [Response("none", NULL, NULL) EXCEPT !.res = "none"]

\* the response r of a request rejected with the error `res`
Rejected(r, res) == IF audit THEN [r EXCEPT !.res = res] ELSE None

\* A handler's session: the request, the rows it loaded and what it has
\* written but not committed.
Session(pc, op, u, f) ==
  [pc |-> pc, op |-> op, user |-> u, festival |-> f, hash |-> {}, amount |-> 0,
   next |-> "none", sid |-> 0, loaded |-> NewSummary, ids |-> {}, activated |-> 0,
   room0 |-> 0, pend |-> {}, res |-> "none", with |-> {}]
Idle == Session("idle", "none", NULL, NULL)

\* The count of rejected requests that inserted a summary row (bounded).
lazy_row(res, S, S2) ==
  IF res # "ok" /\ S2 # S
  THEN lazy < MaxLazyRows /\ lazy' = lazy + 1
  ELSE lazy' = lazy

\* ------------------------------------------------------------- upload_photo
\* A faulty variant of the insert: the photo is credited at once.
NewPhotoActive(u, f, h, t) ==
  [festival_id |-> f, hash |-> str_hash(h), status |-> PHOTO_STATUS_ACTIVE,
   points |-> Festival[f].per_photo_point, created_at |-> t]

\* TrashPhoto(..., status=PENDING, points=festival.per_photo_point)
NewPhoto(u, f, h, t) ==
  [festival_id |-> f, hash |-> str_hash(h), status |-> PHOTO_STATUS_PENDING,
   points |-> Festival[f].per_photo_point, created_at |-> t]

\* shutil.copyfileobj(image.file, buffer): one more file in UPLOAD_DIR
save_file(n) == n + 1

\* save_path.unlink(missing_ok=True)
unlink_file(n) == n - 1

\* UPLOAD_DIR after a submission with outcome res: the first two gates come
\* before the file is written, the next three delete it again
files_after_upload(n, res) ==
  IF res \in {"OutsideGeofence", "RateLimited"} THEN n
  ELSE IF res \in {"DuplicateImage", "CapExceeded", "BudgetExhausted"}
       THEN unlink_file(save_file(n))
  ELSE save_file(n)

\* which gate of upload_photo stops the request, or "ok"
upload_outcome(P, S, C, u, f, inside, h, t, d) ==
  LET summary == first_summary(ensure_summary(S, u, f, d), u, f, d)
  IN IF ~inside THEN "OutsideGeofence"
     ELSE IF recent_count(P, u, t) >= RateLimitCount THEN "RateLimited"
     ELSE IF is_duplicate(P, u, h) THEN "DuplicateImage"
     ELSE IF Total(summary) >= Festival[f].per_user_daily_cap THEN "CapExceeded"
     ELSE IF ~budget_room(get_budget_usage(P, C, f), Festival[f].per_photo_point,
                          Festival[f].budget) THEN "BudgetExhausted"
     ELSE "ok"

\* the pool table after the jackpot contribution of an accepted photo
pool_after_upload(PL, f) ==
  LET pool == IF PL[f] = <<>> THEN NewJackpotPool ELSE PL[f][1]
  IN [PL EXCEPT ![f] =
        <<[pool EXCEPT !.current_amount =
             @ + contribution(Festival[f].per_photo_point, pool)]>>
        \o (IF PL[f] = <<>> THEN <<>> ELSE Tail(PL[f]))]

\* the entry table after the weekly ticket of an accepted photo
entries_after_upload(E, u, f, wk) ==
  IF EntryRows(E, u, f, wk) # {}
  THEN [E EXCEPT ![FirstOf(EntryRows(E, u, f, wk))].entry_count = @ + 1]
  ELSE Append(E, NewJackpotEntry(u, f, wk))

TotalPhotos(P) == SumOver(Users, [u \in Users |-> Len(P[u])])

upload_photo(u, f, inside, h) ==
  LET res == upload_outcome(photos, summaries, coupons, u, f, inside, h, utcnow, get_today)
      S1 == ensure_summary(summaries, u, f, get_today)
  IN /\ IF res = "ok"
        THEN /\ photos' = [photos EXCEPT ![u] = Append(@, NewPhoto(u, f, h, utcnow))]
             /\ summaries' = [S1 EXCEPT ![<<u, f, get_today>>][1].total_pending =
                                @ + Festival[f].per_photo_point]
             /\ pools' = pool_after_upload(pools, f)
             /\ entries' = entries_after_upload(entries, u, f, week_key)
             /\ last' = [Response("upload", u, f) EXCEPT !.hash = h]
        ELSE /\ summaries' = IF res \in {"CapExceeded", "BudgetExhausted"}
                             THEN S1 ELSE summaries
             /\ last' = Rejected([Response("upload", u, f) EXCEPT !.hash = h], res)
             /\ UNCHANGED <<photos, pools, entries>>
     /\ files' = files_after_upload(files, res)
     /\ lazy_row(res, summaries, summaries')
     /\ UNCHANGED <<audit, now, ticks, coupons, winners, scans, drawLog, sess>>

\* The handler on bytes that are not an image: the geofence and rate gates
\* as for any submission, then the file is written and Image.open raises
\* in compute_image_hash; no statement after it runs.
upload_photo_unreadable(u, f, inside) ==
  LET res == IF ~inside THEN "OutsideGeofence"
             ELSE IF recent_count(photos, u, utcnow) >= RateLimitCount THEN "RateLimited"
             ELSE "UnidentifiedImage"
  IN /\ files' = IF res = "UnidentifiedImage" THEN save_file(files) ELSE files
     /\ last' = Rejected(Response("upload", u, f), res)
     /\ UNCHANGED <<audit, now, ticks, tables, lazy, sess>>

\* ----------------------------------------------------------------- scan_bin
\* The user's PENDING photos of the festival created at or after the cutoff.
eligible_photos(P, u, f, cutoff) ==
  {i \in Indices(P[u]) :
     /\ P[u][i].festival_id = f
     /\ P[u][i].status = PHOTO_STATUS_PENDING
     /\ P[u][i].created_at >= cutoff}

RECURSIVE order_by_created_at_desc(_, _)
\* A faulty variant of the ordering: newest first.
order_by_created_at_desc(rows, I) ==
  IF I = {} THEN <<>>
  ELSE LET i == CHOOSE x \in I :
                  \A y \in I : \/ rows[x].created_at > rows[y].created_at
                               \/ (rows[x].created_at = rows[y].created_at /\ x >= y)
       IN <<i>> \o order_by_created_at_desc(rows, I \ {i})

RECURSIVE order_by_created_at(_, _)
\* order_by(created_at.asc()): the ids of I, oldest first (equal times in
\* insertion order).
order_by_created_at(rows, I) ==
  IF I = {} THEN <<>>
  ELSE LET i == CHOOSE x \in I :
                  \A y \in I : \/ rows[x].created_at < rows[y].created_at
                               \/ (rows[x].created_at = rows[y].created_at /\ x <= y)
       IN <<i>> \o order_by_created_at(rows, I \ {i})

RECURSIVE activation_loop(_, _, _, _, _)
\* The for loop of scan_bin from position k on: <<activated, ids_to_activate>>.
activation_loop(rows, pending, k, remaining_cap, acc) ==
  IF k > Len(pending) THEN acc
  ELSE IF acc[1] + rows[pending[k]].points > remaining_cap THEN acc
  ELSE activation_loop(rows, pending, k + 1, remaining_cap,
                       <<acc[1] + rows[pending[k]].points, Append(acc[2], pending[k])>>)

\* A faulty variant of the remaining cap: redeemed points are not counted.
remaining_cap_without_consumed(f, summary) ==
  Max(0, Festival[f].per_user_daily_cap - summary.total_active)

remaining_cap_of(f, summary) ==
  Max(0, Festival[f].per_user_daily_cap
           - (summary.total_active + summary.total_consumed))

pending_photos(P, u, f, t) ==
  order_by_created_at(P[u], eligible_photos(P, u, f, t - PENDING_ACTIVATION_MINUTES))

\* <<activated, ids_to_activate>> of a scan
scan_batch(P, S, u, f, t, d) ==
  activation_loop(P[u], pending_photos(P, u, f, t), 1,
                  remaining_cap_of(f, first_summary(ensure_summary(S, u, f, d), u, f, d)),
                  <<0, <<>>>>)

\* which check of scan_bin stops the request, or "ok"
scan_outcome(P, S, C, u, f, inside, t, d) ==
  LET summary == first_summary(ensure_summary(S, u, f, d), u, f, d)
  IN IF ~inside THEN "OutsideGeofence"
     ELSE IF get_budget_usage(P, C, f) >= Festival[f].budget THEN "BudgetExhausted"
     ELSE IF remaining_cap_of(f, summary) <= 0 THEN "CapExceeded"
     ELSE IF pending_photos(P, u, f, t) = <<>> THEN "NothingToActivate"
     ELSE IF scan_batch(P, S, u, f, t, d)[2] = <<>> THEN "CapExceeded"
     ELSE "ok"

\* UPDATE trash_photos SET status = 'ACTIVE' WHERE id IN ids
activate_photos(rows, ids) ==
  [i \in Indices(rows) |->
     IF i \in ids THEN [rows[i] EXCEPT !.status = PHOTO_STATUS_ACTIVE] ELSE rows[i]]

\* A faulty variant of the summary update: the activated points are added
\* to total_active but not taken from total_pending.
summary_after_scan_credit_only(row, activated) ==
  [row EXCEPT !.total_active = @ + activated]

\* the summary row after the scan moved `activated` points
summary_after_scan(row, activated) ==
  [row EXCEPT !.total_pending = @ - activated, !.total_active = @ + activated]

NewBinScan(u, f) == [festival_id |-> f, user_id |-> u]

scan_bin(u, f, inside) ==
  LET res == scan_outcome(photos, summaries, coupons, u, f, inside, utcnow, get_today)
      S1 == ensure_summary(summaries, u, f, get_today)
      batch == scan_batch(photos, summaries, u, f, utcnow, get_today)
      ids == {batch[2][k] : k \in Indices(batch[2])}
  IN /\ IF res = "ok"
        THEN /\ photos' = [photos EXCEPT ![u] = activate_photos(@, ids)]
             /\ summaries' = [S1 EXCEPT ![<<u, f, get_today>>][1] =
                                summary_after_scan(@, batch[1])]
             /\ scans' = scans (+) SetToBag({NewBinScan(u, f)})
             /\ last' = [Response("scan", u, f) EXCEPT !.amount = batch[1], !.ids = ids]
        ELSE /\ summaries' = IF res \in {"OutsideGeofence", "BudgetExhausted"}
                             THEN summaries ELSE S1
             /\ last' = Rejected(Response("scan", u, f), res)
             /\ UNCHANGED <<photos, scans>>
     /\ lazy_row(res, summaries, summaries')
     /\ UNCHANGED <<audit, files, now, ticks, coupons, pools, entries, winners, drawLog, sess>>

\* ------------------------------------------------------------- issue_coupon
\* f"HDFEST-{amount_int}-{str(int(time.time_ns()))[-6:]}"
coupon_code(amount, ns6) == <<"HDFEST", amount, ns6>>

NewCoupon(u, f, amount, ns6) ==
  [user_id |-> u, festival_id |-> f, amount |-> amount,
   code |-> coupon_code(amount, ns6), status |-> COUPON_STATUS_ISSUED]

coupon_outcome(P, S, C, u, f, amount, d) ==
  LET summary == first_summary(ensure_summary(S, u, f, d), u, f, d)
  IN IF summary.total_active < amount THEN "InsufficientBalance"
     ELSE IF ~budget_room(get_budget_usage(P, C, f), amount, Festival[f].budget)
          THEN "BudgetExhausted"
     ELSE "ok"

\* A faulty variant of the debit: the amount leaves total_active but is not
\* added to total_consumed.
summary_after_coupon_debit_only(row, amount) ==
  [row EXCEPT !.total_active = @ - amount]

summary_after_coupon(row, amount) ==
  [row EXCEPT !.total_active = @ - amount, !.total_consumed = @ + amount]

issue_coupon(u, f, amount, ns6) ==
  LET res == coupon_outcome(photos, summaries, coupons, u, f, amount, get_today)
      S1 == ensure_summary(summaries, u, f, get_today)
  IN /\ IF res = "ok"
        THEN /\ summaries' = [S1 EXCEPT ![<<u, f, get_today>>][1] =
                                summary_after_coupon(@, amount)]
             /\ coupons' = coupons (+) SetToBag({NewCoupon(u, f, amount, ns6)})
             /\ last' = [Response("coupon", u, f) EXCEPT !.amount = amount]
        ELSE /\ summaries' = S1
             /\ last' = Rejected([Response("coupon", u, f) EXCEPT !.amount = amount], res)
             /\ UNCHANGED coupons
     /\ lazy_row(res, summaries, summaries')
     /\ UNCHANGED <<audit, files, now, ticks, photos, pools, entries, winners, scans, drawLog, sess>>

\* ------------------------------------------------------------- draw_jackpot
\* A faulty variant of the select: the entries of the festival of every week.
draw_entries_any_week(E, f, wk) ==
  SelectSeq(E, LAMBDA e : e.festival_id = f)

\* A faulty variant of the select: the entries of this week of every festival.
draw_entries_any_festival(E, f, wk) ==
  SelectSeq(E, LAMBDA e : e.week_key = wk)

\* The JackpotEntry rows the draw selects: this festival, this week key.
draw_entries(E, f, wk) ==
  SelectSeq(E, LAMBDA e : e.festival_id = f /\ e.week_key = wk)

draw_users(E, f, wk) ==
  LET sel == draw_entries(E, f, wk) IN [k \in Indices(sel) |-> sel[k].user_id]

draw_weights(E, f, wk) ==
  LET sel == draw_entries(E, f, wk) IN [k \in Indices(sel) |-> sel[k].entry_count]

\* random.choices(users, weights=weights, k=1)[0] may return any user of
\* positive weight.
choices(users, weights) == {users[k] : k \in {j \in Indices(users) : weights[j] > 0}}

draw_outcome(PL, E, S, f, w, wk, d) ==
  IF PL[f] = <<>> THEN "NoPool"
  ELSE IF draw_entries(E, f, wk) = <<>> THEN "NoParticipants"
  ELSE IF Len(SummaryRows(S, w, f, d)) > 1 THEN "MultipleResultsFound"
  ELSE "ok"

\* A faulty variant of the credit: the amount replaces total_active.
credit_winner_overwrite(S, w, f, d, amount) ==
  LET S1 == IF SummaryRows(S, w, f, d) = <<>>
            THEN [S EXCEPT ![<<w, f, d>>] = <<NewSummary>>] ELSE S
  IN [S1 EXCEPT ![<<w, f, d>>][1].total_active = amount]

\* the summary table with the winner's row of the day credited
credit_winner(S, w, f, d, amount) ==
  LET S1 == IF SummaryRows(S, w, f, d) = <<>>
            THEN [S EXCEPT ![<<w, f, d>>] = <<NewSummary>>] ELSE S
  IN [S1 EXCEPT ![<<w, f, d>>][1].total_active = @ + amount]

NewWinner(w, f, wk, amount) ==
  [user_id |-> w, festival_id |-> f, week_key |-> wk, amount |-> amount]

\* A faulty variant of the reset: the pool is emptied.
reset_pool_to_zero(pool, w, d) ==
  [pool EXCEPT !.current_amount = 0, !.last_winner_id = w, !.last_draw_date = d]

\* pool.current_amount = pool.seed_amount and the last-draw fields
reset_pool(pool, w, d) ==
  [pool EXCEPT !.current_amount = pool.seed_amount,
               !.last_winner_id = w, !.last_draw_date = d]

draw_jackpot(f) ==
  LET users == draw_users(entries, f, week_key)
      weights == draw_weights(entries, f, week_key)
      hook == IF pools[f] # <<>> /\ users # <<>> THEN choices(users, weights) ELSE {NULL}
  IN \E w \in hook :
       LET res == draw_outcome(pools, entries, summaries, f, w, week_key, get_today)
           pool == pools[f][1]
       IN /\ res = "ok" => Len(winners) < MaxDraws
          /\ IF res = "ok"
             THEN /\ summaries' = credit_winner(summaries, w, f, get_today,
                                                pool.current_amount)
                  /\ winners' = Append(winners,
                                       NewWinner(w, f, week_key, pool.current_amount))
                  /\ pools' = [pools EXCEPT ![f][1] = reset_pool(@, w, get_today)]
                  /\ drawLog' = [drawLog EXCEPT ![f] =
                                   [resets |-> @.resets + 1, credits |-> @.credits + 1]]
                  /\ last' = [Response("draw", w, f) EXCEPT
                                !.amount = pool.current_amount,
                                !.users = users, !.weights = weights]
             ELSE /\ last' = Rejected(Response("draw", w, f), res)
                  /\ UNCHANGED <<summaries, winners, pools, drawLog>>
          /\ UNCHANGED <<audit, files, now, ticks, photos, coupons, entries, scans, lazy, sess>>

\* -------------------------------------------------------------- get_jackpot
\* GET /api/festivals/{festival_id}/jackpot: reads the pool row and answers
\* its current_amount, or 0 when the festival has no pool row; writes nothing.
get_jackpot(f) ==
  /\ last' = [Response("jackpot", NULL, f) EXCEPT
               !.amount = IF pools[f] = <<>> THEN 0 ELSE pools[f][1].current_amount]
  /\ UNCHANGED <<audit, files, now, ticks, tables, lazy, sess>>

\* -------------------------------------------------------------------- time
tick(bound) ==
  /\ ticks < bound
  /\ now' = now + TickMinutes
  /\ ticks' = ticks + 1
  /\ last' = None
  /\ UNCHANGED <<audit, files, tables, lazy, sess>>

Tick == tick(MaxTicks)

\* ------------------------------------------------------------ specification
InitWith(T, a) ==
  /\ now \in T
  /\ audit = a
  /\ ticks = 0
  /\ photos = [u \in Users |-> <<>>]
  /\ summaries = [k \in SummaryKeys |-> <<>>]
  /\ coupons = EmptyBag
  /\ pools = [f \in Festivals |-> IF f = "fest1" THEN <<SeededPool>> ELSE <<>>]
  /\ entries = <<>>
  /\ winners = <<>>
  /\ scans = EmptyBag
  /\ drawLog = [f \in Festivals |-> [resets |-> 0, credits |-> 0]]
  /\ lazy = 0
  /\ sess = [p \in Procs |-> Idle]
  /\ last = None
  /\ files = 0

InitAt(T) == InitWith(T, FALSE)

Init == InitAt(StartTimes)
InitJackpot == InitAt(JackpotStartTimes)

SubmitPhoto == \E a \in Uploaders, inside \in BOOLEAN, h \in Images :
                 /\ upload_photo(a[1], a[2], inside, h)
                 /\ TotalPhotos(photos') <= MaxPhotos
ActivateByBinScan == \E a \in Redeemers, inside \in BOOLEAN :
                       scan_bin(a[1], a[2], inside)
IssueCoupon == \E a \in Redeemers, amount \in Amounts, ns6 \in NsDigits :
                 /\ issue_coupon(a[1], a[2], amount, ns6)
                 /\ BagCardinality(coupons') <= MaxCoupons
DrawJackpot == \E f \in {a[2] : a \in Uploaders} : draw_jackpot(f)

Next ==
  \/ SubmitPhoto
  \/ ActivateByBinScan
  \/ IssueCoupon
  \/ DrawJackpot
  \/ Tick

Spec == Init /\ [][Next]_vars

\* The jackpot with every account taking part: submissions, draws, time.
SubmitPhotoAll == \E a \in Accounts, inside \in BOOLEAN, h \in Images :
                    /\ upload_photo(a[1], a[2], inside, h)
                    /\ TotalPhotos(photos') <= MaxPhotos
\* the festivals whose jackpot is drawn and read
JackpotFestivals == {"fest1", "fest2", "fest3"}
DrawJackpotAll == \E f \in JackpotFestivals : draw_jackpot(f)
GetJackpot == \E f \in JackpotFestivals : get_jackpot(f)

NextJackpot ==
  \/ SubmitPhotoAll
  \/ DrawJackpotAll
  \/ GetJackpot
  \/ Tick

SpecJackpot == InitJackpot /\ [][NextJackpot]_vars

\* ---------------------------------------------------- interleaved handlers
\* Each handler runs its request statement by statement against the
\* committed tables: a select sees what is committed when it runs, the ORM
\* writes the values it computed from the rows it loaded, and the writes of
\* a request become visible together at its commit.  Requests inside the
\* geofence only; the handlers are followed through the database, the image
\* files of UPLOAD_DIR are not counted here.
InFlight(p) == sess[p].pc \notin {"idle", "done"}

\* start request `r` on handler p, noting the requests it overlaps with
Begin(p, r) ==
  LET others == {q \in Procs \ {p} : InFlight(q)}
  IN sess' = [q \in Procs |->
                IF q = p THEN [r EXCEPT !.with = others]
                ELSE IF q \in others THEN [sess[q] EXCEPT !.with = @ \cup {p}]
                ELSE sess[q]]

\* the request of p is over with result `res`: the session is closed
\* (a crashed session keeps the writes that were rolled back)
Closed(r, res) ==
  [Session("done", r.op, r.user, r.festival) EXCEPT
     !.res = res, !.room0 = r.room0, !.with = r.with,
     !.pend = IF res = "crashed" THEN r.pend ELSE {}]

Done(p, res) == sess' = [sess EXCEPT ![p] = Closed(@, res)]

\* Handlers are interchangeable: a request is taken by h1 unless h1 is busy.
Free(p) ==
  /\ sess[p].pc = "idle"
  /\ p = "h2" => sess["h1"].pc # "idle"

UploadsInFlight == Cardinality({q \in Procs : InFlight(q) /\ sess[q].op = "upload"})

begin_upload(p, u, f, h) ==
  LET res == IF recent_count(photos, u, utcnow) >= RateLimitCount THEN "RateLimited"
             ELSE IF is_duplicate(photos, u, h) THEN "DuplicateImage"
             ELSE "ok"
      r0 == [Session("select", "upload", u, f) EXCEPT
               !.hash = h, !.next = "upload_check",
               !.room0 = Festival[f].budget - get_budget_usage(photos, coupons, f)]
      r == IF res = "ok" THEN r0 ELSE Closed(r0, res)
  IN /\ Free(p)
     /\ TotalPhotos(photos) + UploadsInFlight < MaxConcPhotos
     /\ Begin(p, r)
     /\ UNCHANGED <<audit, files, now, ticks, tables, lazy, last>>

\* ensure_summary, the select
ensure_select(p) ==
  LET rows == SummaryRows(summaries, sess[p].user, sess[p].festival, get_today)
  IN /\ sess[p].pc = "select"
     /\ sess' = IF rows # <<>>
                THEN [sess EXCEPT ![p].pc = sess[p].next, ![p].sid = 1,
                                  ![p].loaded = rows[1]]
                ELSE [sess EXCEPT ![p].pc = "insert"]
     /\ UNCHANGED <<audit, files, now, ticks, tables, lazy, last>>

\* ensure_summary, db.add / db.commit / db.refresh of the new row
ensure_insert(p) ==
  LET key == <<sess[p].user, sess[p].festival, get_today>>
  IN /\ sess[p].pc = "insert"
     /\ summaries' = [summaries EXCEPT ![key] = Append(@, NewSummary)]
     /\ sess' = [sess EXCEPT ![p].pc = sess[p].next,
                             ![p].sid = Len(summaries[key]) + 1,
                             ![p].loaded = NewSummary]
     /\ UNCHANGED <<audit, files, now, ticks, photos, coupons, pools, entries, winners, scans,
                    drawLog, lazy, last>>

\* the cap gate on the loaded summary, then ensure_budget_room
upload_check(p) ==
  LET f == sess[p].festival
      res == IF Total(sess[p].loaded) >= Festival[f].per_user_daily_cap
             THEN "CapExceeded"
             ELSE IF ~budget_room(get_budget_usage(photos, coupons, f),
                                  Festival[f].per_photo_point, Festival[f].budget)
                  THEN "BudgetExhausted"
             ELSE "ok"
  IN /\ sess[p].pc = "upload_check"
     /\ IF res = "ok" THEN sess' = [sess EXCEPT ![p].pc = "upload_write"]
        ELSE Done(p, res)
     /\ UNCHANGED <<audit, files, now, ticks, tables, lazy, last>>

\* the photo, the summary's new total_pending, the pool and the entry, and
\* the commit when the handler returns
upload_write(p) ==
  LET u == sess[p].user
      f == sess[p].festival
  IN /\ sess[p].pc = "upload_write"
     /\ photos' = [photos EXCEPT ![u] = Append(@, NewPhoto(u, f, sess[p].hash, utcnow))]
     /\ summaries' = [summaries EXCEPT ![<<u, f, get_today>>][sess[p].sid].total_pending =
                        sess[p].loaded.total_pending + Festival[f].per_photo_point]
     /\ pools' = pool_after_upload(pools, f)
     /\ entries' = entries_after_upload(entries, u, f, week_key)
     /\ Done(p, "ok")
     /\ UNCHANGED <<audit, files, now, ticks, coupons, winners, scans, drawLog, lazy, last>>

begin_scan(p, u, f) ==
  LET res == IF get_budget_usage(photos, coupons, f) >= Festival[f].budget
             THEN "BudgetExhausted" ELSE "ok"
      r0 == [Session("select", "scan", u, f) EXCEPT !.next = "scan_check"]
      r == IF res = "ok" THEN r0 ELSE Closed(r0, res)
  IN /\ Free(p)
     /\ Begin(p, r)
     /\ UNCHANGED <<audit, files, now, ticks, tables, lazy, last>>

\* remaining_cap from the loaded summary, the select of the pending photos
\* and the loop
scan_check(p) ==
  LET u == sess[p].user
      f == sess[p].festival
      remaining_cap == remaining_cap_of(f, sess[p].loaded)
      pending == pending_photos(photos, u, f, utcnow)
      batch == activation_loop(photos[u], pending, 1, remaining_cap, <<0, <<>>>>)
      res == IF remaining_cap <= 0 THEN "CapExceeded"
             ELSE IF pending = <<>> THEN "NothingToActivate"
             ELSE IF batch[2] = <<>> THEN "CapExceeded"
             ELSE "ok"
  IN /\ sess[p].pc = "scan_check"
     /\ IF res = "ok"
        THEN sess' = [sess EXCEPT ![p].pc = "scan_write", ![p].activated = batch[1],
                                  ![p].ids = {batch[2][k] : k \in Indices(batch[2])}]
        ELSE Done(p, res)
     /\ UNCHANGED <<audit, files, now, ticks, tables, lazy, last>>

scan_write(p) ==
  LET u == sess[p].user
      f == sess[p].festival
      row == summary_after_scan(sess[p].loaded, sess[p].activated)
  IN /\ sess[p].pc = "scan_write"
     /\ photos' = [photos EXCEPT ![u] = activate_photos(@, sess[p].ids)]
     /\ summaries' = [summaries EXCEPT ![<<u, f, get_today>>][sess[p].sid] =
                        [@ EXCEPT !.total_pending = row.total_pending,
                                  !.total_active = row.total_active]]
     /\ scans' = scans (+) SetToBag({NewBinScan(u, f)})
     /\ Done(p, "ok")
     /\ UNCHANGED <<audit, files, now, ticks, coupons, pools, entries, winners, drawLog, lazy, last>>

begin_coupon(p, u, f, amount) ==
  /\ Free(p)
  /\ Begin(p, [Session("select", "coupon", u, f) EXCEPT
                 !.amount = amount, !.next = "coupon_check"])
  /\ UNCHANGED <<audit, files, now, ticks, tables, lazy, last>>

\* the second select of the summary (.first()), the balance check and
\* ensure_budget_room
coupon_check(p) ==
  LET f == sess[p].festival
      summary == first_summary(summaries, sess[p].user, f, get_today)
      res == IF summary.total_active < sess[p].amount THEN "InsufficientBalance"
             ELSE IF ~budget_room(get_budget_usage(photos, coupons, f),
                                  sess[p].amount, Festival[f].budget)
                  THEN "BudgetExhausted"
             ELSE "ok"
  IN /\ sess[p].pc = "coupon_check"
     /\ IF res = "ok"
        THEN sess' = [sess EXCEPT ![p].pc = "coupon_write", ![p].sid = 1,
                                  ![p].loaded = summary]
        ELSE Done(p, res)
     /\ UNCHANGED <<audit, files, now, ticks, tables, lazy, last>>

coupon_write(p, ns6) ==
  LET u == sess[p].user
      f == sess[p].festival
      row == summary_after_coupon(sess[p].loaded, sess[p].amount)
  IN /\ sess[p].pc = "coupon_write"
     /\ BagCardinality(coupons) < MaxCoupons
     /\ summaries' = [summaries EXCEPT ![<<u, f, get_today>>][sess[p].sid] =
                        [@ EXCEPT !.total_active = row.total_active,
                                  !.total_consumed = row.total_consumed]]
     /\ coupons' = coupons (+) SetToBag({NewCoupon(u, f, sess[p].amount, ns6)})
     /\ Done(p, "ok")
     /\ UNCHANGED <<audit, files, now, ticks, photos, pools, entries, winners, scans, drawLog, lazy, last>>

\* draw_jackpot: the selects, the weighted choice and the select of the
\* winner's summary of the day
DrawsInFlight == Cardinality({q \in Procs : InFlight(q) /\ sess[q].op = "draw"})

begin_draw(p, f) ==
  LET users == draw_users(entries, f, week_key)
      weights == draw_weights(entries, f, week_key)
      hook == IF pools[f] # <<>> /\ users # <<>> THEN choices(users, weights) ELSE {NULL}
  IN \E w \in hook :
       LET res == draw_outcome(pools, entries, summaries, f, w, week_key, get_today)
           rows == SummaryRows(summaries, w, f, get_today)
           r == IF res # "ok"
                THEN Closed(Session("done", "draw", w, f), res)
                ELSE [Session("draw_credit", "draw", w, f) EXCEPT
                        !.amount = pools[f][1].current_amount,
                        !.sid = Len(rows),
                        !.loaded = IF rows = <<>> THEN NewSummary ELSE rows[1]]
       IN /\ Free(p)
          /\ res = "ok" => Len(winners) + DrawsInFlight < MaxDraws
          /\ Begin(p, r)
          /\ UNCHANGED <<audit, files, now, ticks, tables, lazy, last>>

\* the statements of draw_jackpot after the selects, in program order
DrawSteps == <<"draw_credit", "draw_record", "draw_reset", "draw_commit">>
step_after(pc) ==
  IF pc = "draw_commit" THEN "done"
  ELSE DrawSteps[(CHOOSE k \in Indices(DrawSteps) : DrawSteps[k] = pc) + 1]

\* A faulty variant of the commit: the credit is committed on its own, as
\* ensure_summary commits its insert.
commits_after_credit(pc) == pc \in {"draw_credit", "draw_commit"}

\* the statement after which the session commits: db.commit() follows the
\* last assignment to the pool
commits_after(pc) == pc = "draw_commit"

\* the tables after committing the pending writes `pend` of the draw of p
summaries_after_draw(S, p, pend) ==
  LET key == <<sess[p].user, sess[p].festival, get_today>>
      row == [sess[p].loaded EXCEPT !.total_active = @ + sess[p].amount]
  IN IF "draw_credit" \notin pend THEN S
     ELSE IF sess[p].sid = 0 THEN [S EXCEPT ![key] = Append(@, row)]
     ELSE [S EXCEPT ![key][1].total_active = row.total_active]

winners_after_draw(W, p, pend) ==
  IF "draw_record" \notin pend THEN W
  ELSE Append(W, NewWinner(sess[p].user, sess[p].festival, week_key, sess[p].amount))

pools_after_draw(PL, p, pend) ==
  IF "draw_reset" \notin pend THEN PL
  ELSE [PL EXCEPT ![sess[p].festival][1] = reset_pool(@, sess[p].user, get_today)]

drawLog_after_draw(L, p, pend) ==
  [L EXCEPT ![sess[p].festival] =
     [resets |-> @.resets + (IF "draw_reset" \in pend THEN 1 ELSE 0),
      credits |-> @.credits + (IF "draw_credit" \in pend THEN 1 ELSE 0)]]

\* one statement of the draw: its write joins the pending writes of the
\* session, and a commit makes the pending writes visible
draw_step(p) ==
  LET pc == sess[p].pc
      pend == IF pc = "draw_commit" THEN sess[p].pend ELSE sess[p].pend \cup {pc}
  IN /\ pc \in {DrawSteps[k] : k \in Indices(DrawSteps)}
     /\ IF commits_after(pc)
        THEN /\ summaries' = summaries_after_draw(summaries, p, pend)
             /\ winners' = winners_after_draw(winners, p, pend)
             /\ pools' = pools_after_draw(pools, p, pend)
             /\ drawLog' = drawLog_after_draw(drawLog, p, pend)
             /\ IF step_after(pc) = "done" THEN Done(p, "ok")
                ELSE sess' = [sess EXCEPT ![p].pc = step_after(pc), ![p].pend = {}]
        ELSE /\ IF step_after(pc) = "done" THEN Done(p, "ok")
                ELSE sess' = [sess EXCEPT ![p].pc = step_after(pc), ![p].pend = pend]
             /\ UNCHANGED <<summaries, winners, pools, drawLog>>
     /\ UNCHANGED <<audit, files, now, ticks, photos, coupons, entries, scans, lazy, last>>

\* The process dies, or the request fails, before the handler returns: the
\* session is closed and its pending writes are rolled back.
crash(p) ==
  /\ InFlight(p)
  /\ Done(p, "crashed")
  /\ UNCHANGED <<audit, files, now, ticks, tables, lazy, last>>

\* the response is sent and the handler takes the next request
return(p) ==
  /\ sess[p].pc = "done"
  /\ sess' = [sess EXCEPT ![p] = Idle]
  /\ UNCHANGED <<audit, files, now, ticks, tables, lazy, last>>

BeginUpload == \E p \in Procs, a \in ConcAccounts, h \in ConcImages :
                 begin_upload(p, a[1], a[2], h)
BeginScan == \E p \in Procs, a \in ConcRedeemers : begin_scan(p, a[1], a[2])
BeginCoupon == \E p \in Procs, a \in ConcRedeemers, amount \in Amounts :
                 begin_coupon(p, a[1], a[2], amount)
BeginDraw == \E p \in Procs, f \in {a[2] : a \in ConcAccounts} : begin_draw(p, f)
EnsureSelect == \E p \in Procs : ensure_select(p)
EnsureInsert == \E p \in Procs : ensure_insert(p)
UploadCheck == \E p \in Procs : upload_check(p)
UploadWrite == \E p \in Procs : upload_write(p)
ScanCheck == \E p \in Procs : scan_check(p)
ScanWrite == \E p \in Procs : scan_write(p)
CouponCheck == \E p \in Procs : coupon_check(p)
CouponWrite == \E p \in Procs, ns6 \in NsDigits : coupon_write(p, ns6)
DrawStep == \E p \in Procs : draw_step(p)
Crash == \E p \in Procs : crash(p)
Return == \E p \in Procs : return(p)

NextConc ==
  \/ BeginUpload
  \/ BeginScan
  \/ BeginCoupon
  \/ BeginDraw
  \/ EnsureSelect
  \/ EnsureInsert
  \/ UploadCheck
  \/ UploadWrite
  \/ ScanCheck
  \/ ScanWrite
  \/ CouponCheck
  \/ CouponWrite
  \/ DrawStep
  \/ Crash
  \/ Return

SpecConc == Init /\ [][NextConc]_vars

\* =============================================================== properties
PointsOf(P, u, ids) == SumOver(ids, [i \in ids |-> P[u][i].points])

\* the summary row of (u, f) of today that a request works on: the first
\* row, or zeros when there is none yet
TodayRow(S, u, f) ==
  IF SummaryRows(S, u, f, get_today) = <<>> THEN NewSummary
  ELSE SummaryRows(S, u, f, get_today)[1]

\* photo i is older than photo j (insertion order among equal times)
Older(rows, i, j) ==
  \/ rows[i].created_at < rows[j].created_at
  \/ (rows[i].created_at = rows[j].created_at /\ i < j)

\* C2: in every committed state every UserDailySummary row of (user,
\* festival, day) has total_pending + total_active + total_consumed at most
\* the festival's per_user_daily_cap.
C2_DailyCapRespected ==
  \A k \in SummaryKeys : \A i \in Indices(summaries[k]) :
    Total(summaries[k][i]) <= Festival[k[2]].per_user_daily_cap

\* C4: in every reachable state total_pending, total_active and
\* total_consumed of every UserDailySummary row are >= 0.
C4_BalancesNonNegative ==
  \A k \in SummaryKeys : \A i \in Indices(summaries[k]) :
    /\ summaries[k][i].total_pending >= 0
    /\ summaries[k][i].total_active >= 0
    /\ summaries[k][i].total_consumed >= 0

\* a step in which a scan succeeded
ScanSucceeds == last'.op = "scan" /\ last'.res = "ok"

ScanActivatesLongestOldestPrefix ==
  LET u == last'.user
      f == last'.festival
      rows == photos[u]
      eligible == {i \in Indices(rows) :
                     /\ rows[i].festival_id = f
                     /\ rows[i].status = PHOTO_STATUS_PENDING
                     /\ rows[i].created_at >= utcnow - PENDING_ACTIVATION_MINUTES}
      row == TodayRow(summaries, u, f)
      remainingCap == Max(0, Festival[f].per_user_daily_cap
                               - (row.total_active + row.total_consumed))
      batch == {i \in Indices(rows) : /\ rows[i].status = PHOTO_STATUS_PENDING
                                      /\ photos'[u][i].status = PHOTO_STATUS_ACTIVE}
      rest == eligible \ batch
  IN /\ batch = last'.ids
     /\ batch # {}
     /\ batch \subseteq eligible
     \* oldest first: whatever is older than an activated photo is activated
     /\ \A i \in batch, j \in eligible : Older(rows, j, i) => j \in batch
     /\ PointsOf(photos, u, batch) <= remainingCap
     \* longest: the oldest photo left behind does not fit any more
     /\ \A j \in rest :
          (\A k \in rest \ {j} : Older(rows, j, k))
            => PointsOf(photos, u, batch) + rows[j].points > remainingCap
     \* the remainder stays as it was: PENDING, with its creation time, so a
     \* scan within 30 minutes of that time still selects it
     /\ \A j \in rest :
          /\ photos'[u][j] = rows[j]
          /\ \A t \in {utcnow + k * TickMinutes : k \in 0..MaxTicks} :
               rows[j].created_at >= t - PENDING_ACTIVATION_MINUTES
                 => j \in eligible_photos(photos', u, f, t - PENDING_ACTIVATION_MINUTES)

\* C5: a successful scan activates exactly the longest oldest-first prefix of
\* the user's eligible PENDING photos (same festival, created within the
\* trailing 30 minutes) whose points stay within the remaining cap; it stops
\* at the first photo that does not fit, and every eligible photo outside the
\* prefix stays PENDING and selectable by a scan within 30 minutes of its
\* creation.
C5_LongestOldestPrefix == [][ScanSucceeds => ScanActivatesLongestOldestPrefix]_vars

\* a scan that activated the older of two eligible photos and left the
\* younger one PENDING
C5_PartialActivation ==
  /\ last.op = "scan"
  /\ last.ids = {1}
  /\ Len(photos[last.user]) >= 2
  /\ photos[last.user][2].status = PHOTO_STATUS_PENDING
  /\ photos[last.user][2].festival_id = last.festival
  /\ photos[last.user][2].created_at >= utcnow - PENDING_ACTIVATION_MINUTES

ScanMovesPendingToActive ==
  LET u == last'.user
      f == last'.festival
      key == <<u, f, get_today>>
      row == TodayRow(summaries, u, f)
      row2 == summaries'[key][1]
      flipped == {id \in PhotoIds(photos) :
                    PhotoRow(photos', id).status # PhotoRow(photos, id).status}
      activated == SumOver(flipped, [id \in flipped |-> PhotoRow(photos, id).points])
      record == [festival_id |-> f, user_id |-> u]
  IN /\ PhotoIds(photos') = PhotoIds(photos)
     /\ flipped = {<<u, i>> : i \in last'.ids}
     /\ \A id \in flipped :
          /\ PhotoRow(photos, id).status = PHOTO_STATUS_PENDING
          /\ PhotoRow(photos', id) =
               [PhotoRow(photos, id) EXCEPT !.status = PHOTO_STATUS_ACTIVE]
     /\ \A id \in PhotoIds(photos) \ flipped : PhotoRow(photos', id) = PhotoRow(photos, id)
     /\ last'.amount = activated
     /\ activated > 0
     /\ row2.total_pending = row.total_pending - activated
     /\ row2.total_active = row.total_active + activated
     /\ row2.total_consumed = row.total_consumed
     /\ Total(row2) = Total(row)
     /\ Len(summaries'[key]) = Max(1, Len(summaries[key]))
     /\ \A i \in Indices(summaries[key]) \ {1} : summaries'[key][i] = summaries[key][i]
     /\ \A k \in SummaryKeys \ {key} : summaries'[k] = summaries[k]
     /\ BagCardinality(scans') = BagCardinality(scans) + 1
     /\ CopiesIn(record, scans') = CopiesIn(record, scans) + 1

\* C6: a successful scan moves exactly `activated`, the points of the photos
\* it flips to ACTIVE, from total_pending to total_active of the user's
\* summary, leaves total_consumed and the sum of the three unchanged, flips
\* no photo outside the batch and appends exactly one BinScan record.
C6_ScanFrame == [][ScanSucceeds => ScanMovesPendingToActive]_vars

\* a scan has activated a photo while another user's photo is PENDING
C6_ScanBesideOtherUser ==
  /\ last.op = "scan"
  /\ last.amount > 0
  /\ BagCardinality(scans) = 1
  /\ \E u \in Users \ {last.user} : \E i \in Indices(photos[u]) :
       photos[u][i].status = PHOTO_STATUS_PENDING

\* a step in which a draw succeeded
DrawSucceeds == last'.op = "draw" /\ last'.res = "ok"

DrawPaysThePool ==
  LET f == last'.festival
      w == last'.user
      amount == pools[f][1].current_amount
      row == TodayRow(summaries, w, f)
      row2 == summaries'[<<w, f, get_today>>][1]
  IN /\ pools'[f][1].current_amount = pools'[f][1].seed_amount
     /\ pools'[f][1].seed_amount = pools[f][1].seed_amount
     /\ row2.total_active = row.total_active + amount
     /\ row2.total_pending = row.total_pending
     /\ row2.total_consumed = row.total_consumed
     /\ Len(winners') = Len(winners) + 1
     /\ winners'[Len(winners')].amount = amount
     /\ winners'[Len(winners')].user_id = w
     /\ winners'[Len(winners')].festival_id = f
     /\ last'.amount = amount

C8_PoolResetToZero ==
  last.op = "draw" => pools[last.festival][1].current_amount = 0

\* the k-th smallest element of the finite set of numbers I
Nth(I, k) == CHOOSE i \in I : Cardinality({j \in I : j <= i}) = k

\* The entries of the repository's jackpot test (alice: 1, bob: 3), beside an
\* entry of another festival and one of another week.
TestEntries(f, wk) ==
  << [NewJackpotEntry("bob", "fest2", wk) EXCEPT !.entry_count = 2],
     [NewJackpotEntry("alice", f, wk) EXCEPT !.entry_count = 1],
     [NewJackpotEntry("bob", f, <<wk[1], wk[2] - 1>>) EXCEPT !.entry_count = 2],
     [NewJackpotEntry("bob", f, wk) EXCEPT !.entry_count = 3] >>

DrawHandsHookTheEntries ==
  LET f == last'.festival
      w == last'.user
      I == {i \in Indices(entries) :
              entries[i].festival_id = f /\ entries[i].week_key = week_key}
      n == Cardinality(I)
  IN /\ Len(last'.users) = n
     /\ Len(last'.weights) = n
     /\ \A k \in 1..n : /\ last'.users[k] = entries[Nth(I, k)].user_id
                        /\ last'.weights[k] = entries[Nth(I, k)].entry_count
     /\ w \in {entries[i].user_id : i \in I}
     /\ winners'[Len(winners')].user_id = w
     /\ winners'[Len(winners')].festival_id = f
     /\ winners'[Len(winners')].week_key = week_key
     /\ pools'[f][1].last_winner_id = w
     /\ summaries'[<<w, f, get_today>>][1].total_active =
          TodayRow(summaries, w, f).total_active + pools[f][1].current_amount
     /\ \A k \in SummaryKeys \ {<<w, f, get_today>>} : summaries'[k] = summaries[k]
     /\ draw_users(TestEntries("fest1", week_key), "fest1", week_key) = <<"alice", "bob">>
     /\ draw_weights(TestEntries("fest1", week_key), "fest1", week_key) = <<1, 3>>

\* C10: the draw hands the selection hook exactly the JackpotEntry rows of
\* this festival and the current week key, as the list of their user ids and
\* the list of their entry counts (for alice: 1, bob: 3 the lists
\* [alice, bob] and [1, 3]); the winner is the user the hook returns, and
\* entries of other festivals or other weeks are never candidates.
C10_HookGetsThisWeeksEntries == [][DrawSucceeds => DrawHandsHookTheEntries]_vars

\* a draw among two users of this week while the table also holds an entry
\* of the festival from the week before
C10_DrawBesideLastWeeksEntries ==
  /\ last.op = "draw"
  /\ last.users = <<"alice", "bob">>
  /\ \E i \in Indices(entries) : /\ entries[i].festival_id = last.festival
                                 /\ entries[i].week_key # week_key

\* ------------------------------------------------- interleaved handlers
\* C1: in every committed state reached by interleaved requests, the points
\* of a festival's photos plus the amounts of its coupons are at most the
\* festival's budget.
C1_BudgetNeverExceeded ==
  \A f \in Festivals : get_budget_usage(photos, coupons, f) <= Festival[f].budget

\* the room fits exactly one photo of the festival
FitsExactlyOne(room, f) ==
  /\ Festival[f].per_photo_point <= room
  /\ room < 2 * Festival[f].per_photo_point

\* C3: of two submissions that ran concurrently against a festival whose
\* remaining budget fitted exactly one photo, and that both passed the rate,
\* dedup and cap gates, exactly one is accepted and the other is rejected
\* with BudgetExhausted.
C3_ExactlyOneAccepted ==
  \A p \in Procs : \A q \in Procs \ {p} :
    ( /\ sess[p].pc = "done" /\ sess[q].pc = "done"
      /\ sess[p].op = "upload" /\ sess[q].op = "upload"
      /\ sess[p].festival = sess[q].festival
      /\ q \in sess[p].with
      /\ \A r \in {p, q} : /\ sess[r].res \in {"ok", "BudgetExhausted"}
                           /\ FitsExactlyOne(sess[r].room0, sess[r].festival) )
    => Cardinality({r \in {p, q} : sess[r].res = "ok"}) = 1

WinnerRows(f) == {i \in Indices(winners) : winners[i].festival_id = f}

\* C9: the draw is atomic: in every committed state, also after a draw
\* crashed at any statement or interleaved with other requests, the pool has
\* been reset by a draw exactly if that draw's winner was credited and its
\* JackpotWinner row written: committed resets, credits and JackpotWinner
\* rows are equal in number.
C9_DrawAtomic ==
  \A f \in Festivals :
    /\ drawLog[f].resets = drawLog[f].credits
    /\ drawLog[f].credits = Cardinality(WinnerRows(f))
    /\ (pools[f] # <<>> /\ pools[f][1].last_winner_id # NULL) <=> (WinnerRows(f) # {})

\* a draw crashed after its three writes and before its commit, having
\* overlapped with another request
C9_DrawCrashedBeforeCommit ==
  \E p \in Procs :
    /\ sess[p].pc = "done"
    /\ sess[p].op = "draw"
    /\ sess[p].res = "crashed"
    /\ sess[p].pend = {"draw_credit", "draw_record", "draw_reset"}
    /\ sess[p].with # {}
    /\ WinnerRows(sess[p].festival) = {}

\* ---------------------------------------------------------------------------
\* C16: a coupon is only issued for a positive amount: the request that
\* committed last as an issued coupon carried amount > 0.
C16_IssuedAmountPositive ==
  (last.op = "coupon" /\ last.res = "ok") => last.amount > 0

\* ---------------------------------------------------------------------------
\* the photo row without its status
PhotoSnapshot(row) == [row EXCEPT !.status = PHOTO_STATUS_PENDING]

\* What one step may do to the TrashPhoto rows: every row stays, with its
\* points and every other column but the status; a status only goes from
\* PENDING to ACTIVE, and only for a photo a successful scan of its user
\* activated; a new row is PENDING with the festival's per_photo_point, and
\* comes from an accepted upload.
PhotoLifecycleStep ==
  /\ \A id \in PhotoIds(photos) :
       /\ id \in PhotoIds(photos')
       /\ PhotoSnapshot(PhotoRow(photos', id)) = PhotoSnapshot(PhotoRow(photos, id))
       /\ PhotoRow(photos', id).status # PhotoRow(photos, id).status =>
            /\ PhotoRow(photos, id).status = PHOTO_STATUS_PENDING
            /\ PhotoRow(photos', id).status = PHOTO_STATUS_ACTIVE
            /\ ScanSucceeds
            /\ last'.user = id[1]
            /\ last'.festival = PhotoRow(photos, id).festival_id
            /\ id[2] \in last'.ids
  /\ \A id \in PhotoIds(photos') \ PhotoIds(photos) :
       /\ PhotoRow(photos', id).status = PHOTO_STATUS_PENDING
       /\ PhotoRow(photos', id).points =
            Festival[PhotoRow(photos', id).festival_id].per_photo_point
       /\ last'.op = "upload" /\ last'.res = "ok"
       /\ last'.user = id[1]

\* C18: a TrashPhoto is created PENDING with points = the festival's
\* per_photo_point; afterwards only a successful scan changes it, only from
\* PENDING to ACTIVE; it is never deleted and its points never change.
C18_PhotoLifecycle == [][PhotoLifecycleStep]_vars

\* An accepted upload has just added a PENDING photo behind a photo of the
\* same user that an earlier scan made ACTIVE.
C18_PendingBehindActive ==
  /\ last.op = "upload" /\ last.res = "ok"
  /\ \E i, j \in Indices(photos[last.user]) :
       /\ i < j
       /\ photos[last.user][i].status = PHOTO_STATUS_ACTIVE
       /\ photos[last.user][j].status = PHOTO_STATUS_PENDING

\* ---------------------------------------------------------------------------
\* C19: in every state reached by interleaved requests there is at most one
\* UserDailySummary row for each (user_id, festival_id, date).
C19_OneSummaryRowPerKey ==
  \A key \in SummaryKeys : Len(summaries[key]) <= 1

\* ---------------------------------------------------------------------------
\* The requests of one user with every response kept, the rejections
\* included: alice uploads to fest1 and fest2 and scans bins there, and
\* redeems coupons in fest1.
AuditUser == "alice"
AuditUploadFestivals == {"fest1", "fest2"}
AuditScanFestivals == {"fest1", "fest2"}
AuditCouponFestivals == {"fest1"}
AuditAmounts == {-1, 1, 2}

\* The k-th of a family of images whose hashes differ pairwise in exactly 6
\* bits (bits 3k+1 .. 3k+3 are 1).
Image(k) == (3 * k + 1)..(3 * k + 3)

\* The images a submission of user u carries: one not submitted before, or
\* the user's first image again.
AuditImages(u) == {Image(Len(photos[u])), Image(0)}

InitAudit == InitWith(StartTimes, TRUE)

AuditSubmitPhoto == \E f \in AuditUploadFestivals, inside \in BOOLEAN,
                       h \in AuditImages(AuditUser) :
                      /\ upload_photo(AuditUser, f, inside, h)
                      /\ TotalPhotos(photos') <= MaxAuditPhotos
AuditBinScan == \E f \in AuditScanFestivals, inside \in BOOLEAN :
                  scan_bin(AuditUser, f, inside)
AuditIssueCoupon == \E f \in AuditCouponFestivals, amount \in AuditAmounts,
                       ns6 \in NsDigits :
                      /\ issue_coupon(AuditUser, f, amount, ns6)
                      /\ BagCardinality(coupons') <= MaxCoupons

NextAudit ==
  \/ AuditSubmitPhoto
  \/ AuditBinScan
  \/ AuditIssueCoupon
  \/ Tick

SpecAudit == InitAudit /\ [][NextAudit]_vars

\* ---------------------------------------------------------------------------
\* usedBudget(festival): the points of all its photos plus the amounts of
\* all its coupons
UsedBudget(f) ==
  LET ids == {id \in PhotoIds(photos) : PhotoRow(photos, id).festival_id = f}
      rows == {c \in BagToSet(coupons) : c.festival_id = f}
  IN SumOver(ids, [id \in ids |-> PhotoRow(photos, id).points])
     + SumOver(rows, [c \in rows |-> c.amount * CopiesIn(c, coupons)])

\* the tables a request on (u, f) of today leaves alone when all it may
\* write is the first summary row of its key
OnlyTodayRowMayChange(u, f) ==
  LET key == <<u, f, get_today>>
  IN /\ Len(summaries'[key]) = Max(1, Len(summaries[key]))
     /\ \A i \in Indices(summaries[key]) \ {1} : summaries'[key][i] = summaries[key][i]
     /\ \A k \in SummaryKeys \ {key} : summaries'[k] = summaries[k]

CouponAnswered == last'.op = "coupon"

\* The contract of one issue_coupon request, accepted or rejected.
CouponContract ==
  LET u == last'.user
      f == last'.festival
      amount == last'.amount
      row == TodayRow(summaries, u, f)
      row2 == TodayRow(summaries', u, f)
      affordable == row.total_active >= amount
      budgeted == UsedBudget(f) + amount <= Festival[f].budget
      issued == {c \in BagToSet(coupons') : CopiesIn(c, coupons') > CopiesIn(c, coupons)}
  IN /\ last'.res = "ok" <=> (affordable /\ budgeted)
     /\ last'.res = "InsufficientBalance" <=> ~affordable
     /\ last'.res = "BudgetExhausted" <=> (affordable /\ ~budgeted)
     /\ OnlyTodayRowMayChange(u, f)
     /\ photos' = photos
     /\ row2.total_pending = row.total_pending
     /\ IF last'.res = "ok"
        THEN /\ row2.total_active = row.total_active - amount
             /\ row2.total_consumed = row.total_consumed + amount
             /\ BagCardinality(coupons') = BagCardinality(coupons) + 1
             /\ \E c \in issued :
                  /\ issued = {c}
                  /\ c.user_id = u /\ c.festival_id = f /\ c.amount = amount
                  /\ c.status = COUPON_STATUS_ISSUED
                  /\ CopiesIn(c, coupons') = CopiesIn(c, coupons) + 1
        ELSE /\ row2 = row
             /\ coupons' = coupons

\* C15: issue_coupon succeeds exactly when today's total_active >= amount and
\* usedBudget + amount <= budget; it then moves amount from total_active to
\* total_consumed, leaves total_pending alone and adds one ISSUED coupon of
\* that amount; otherwise (InsufficientBalance, else BudgetExhausted) no
\* balance changes and no coupon is created.
C15_CouponContract == [][CouponAnswered => CouponContract]_vars

\* a coupon of a positive amount has just been issued against points that a
\* scan had made ACTIVE
C15_CouponIssued ==
  /\ last.op = "coupon" /\ last.res = "ok" /\ last.amount > 0
  /\ TodayRow(summaries, last.user, last.festival).total_consumed = last.amount
  /\ BagCardinality(coupons) = 1

\* ---------------------------------------------------------------------------
\* the user's PENDING photos of the festival created in the trailing 30
\* minutes
EligiblePending(u, f) ==
  {i \in Indices(photos[u]) :
     /\ photos[u][i].festival_id = f
     /\ photos[u][i].status = PHOTO_STATUS_PENDING
     /\ utcnow - photos[u][i].created_at <= PENDING_ACTIVATION_MINUTES}

\* the answer the scan contract gives a request that passed the geofence
ScanAnswer(u, f) ==
  LET row == TodayRow(summaries, u, f)
      remaining == Festival[f].per_user_daily_cap
                     - (row.total_active + row.total_consumed)
      eligible == EligiblePending(u, f)
      oldest == CHOOSE i \in eligible :
                  \A j \in eligible \ {i} : Older(photos[u], i, j)
  IN IF UsedBudget(f) >= Festival[f].budget THEN "BudgetExhausted"
     ELSE IF remaining <= 0 THEN "CapExceeded"
     ELSE IF eligible = {} THEN "NothingToActivate"
     ELSE IF photos[u][oldest].points > remaining THEN "CapExceeded"
     ELSE "ok"

ScanAnswered == last'.op = "scan" /\ last'.res # "OutsideGeofence"

\* The contract of one scan_bin request that passed the geofence.
ScanContract ==
  LET u == last'.user
      f == last'.festival
  IN /\ last'.res = ScanAnswer(u, f)
     /\ last'.res # "ok" =>
          /\ photos' = photos
          /\ scans' = scans
          /\ coupons' = coupons
          /\ TodayRow(summaries', u, f) = TodayRow(summaries, u, f)
          /\ OnlyTodayRowMayChange(u, f)
     /\ last'.res = "BudgetExhausted" => summaries' = summaries
     /\ last'.res = "ok" => last'.ids # {}

\* C20: a scan that passed the geofence is rejected exactly in these cases,
\* in this order: BudgetExhausted when usedBudget >= budget (before the
\* summary is touched), CapExceeded when the remaining cap is <= 0,
\* NothingToActivate when no PENDING photo of the last 30 minutes exists,
\* CapExceeded when the oldest such photo does not fit the remaining cap; a
\* rejected scan changes no photo, no balance and appends no scan record; a
\* batch of at least one photo is a success.
C20_ScanRejections == [][ScanAnswered => ScanContract]_vars

\* a scan was rejected for the budget although a PENDING photo of the last
\* 30 minutes would have fitted the user's remaining cap
C20_BudgetGateFirst ==
  /\ last.op = "scan" /\ last.res = "BudgetExhausted"
  /\ \E i \in EligiblePending(last.user, last.festival) :
       photos[last.user][i].points
         <= Festival[last.festival].per_user_daily_cap
              - (TodayRow(summaries, last.user, last.festival).total_active
                 + TodayRow(summaries, last.user, last.festival).total_consumed)

\* ---------------------------------------------------------------------------
\* One user submits photo after photo, from inside the festival area, until
\* the dedup window of 20 photos is full, with every response kept. The
\* first photo goes to fest1 or fest3, every later one to fest3.
DedupUser == "alice"
DedupFestivals(u) == IF photos[u] = <<>> THEN {"fest1", "fest3"} ELSE {"fest3"}

\* the highest k whose Image(k) fits the 64 bits of a hash
LastImage == 20

\* An image that differs from Image(0) in 1 bit and from every other Image(k)
\* in 5 bits.
NearImage == Image(0) \ {1}

\* The images a submission carries: one not submitted before (6 bits from
\* every earlier one), the first image again, or the near image.
DedupImages(u) ==
  {Image(k) : k \in {Len(photos[u])} \cap 0..LastImage} \cup {Image(0), NearImage}

InitDedup == InitWith(StartTimes, TRUE)

DedupSubmitPhoto == \E f \in DedupFestivals(DedupUser), h \in DedupImages(DedupUser) :
                      /\ upload_photo(DedupUser, f, TRUE, h)
                      /\ TotalPhotos(photos') <= MaxDedupPhotos
DedupTick == tick(MaxDedupTicks)

NextDedup ==
  \/ DedupSubmitPhoto
  \/ DedupTick

SpecDedup == InitDedup /\ [][NextDedup]_vars

\* ---------------------------------------------------------------------------
\* the number of bits in which two 64 bit hashes differ
BitDistance(a, b) == Cardinality({k \in 1..(4 * HexLen) : (k \in a) # (k \in b)})

\* the user's 20 most recent photos: those with fewer than 20 newer ones
MostRecent(u) ==
  {i \in Indices(photos[u]) :
     Cardinality({j \in Indices(photos[u]) : Older(photos[u], i, j)}) < DedupWindow}

\* the photos among them whose image is within 5 bits of h
CloseTo(u, h) ==
  {i \in MostRecent(u) : BitDistance(h, parse_hash(photos[u][i].hash)) <= DedupThreshold}

DedupAnswered ==
  last'.op = "upload" /\ last'.res \notin {"OutsideGeofence", "RateLimited"}

\* C11: a submission that passed the geofence and rate gates is rejected
\* with DuplicateImage when its image is within 5 bits of one of the user's
\* 20 most recent photos, of whatever festival, and passes the dedup gate
\* when it is 6 or more bits from each of them; older photos play no part.
C11_DedupWindow ==
  [][DedupAnswered =>
       (last'.res = "DuplicateImage" <=> CloseTo(last'.user, last'.hash) # {})]_vars

\* the user's first image was accepted again once 20 newer photos had
\* pushed the first photo out of the window
C11_OldPhotoOutsideWindow ==
  /\ last.op = "upload" /\ last.res = "ok"
  /\ Len(photos[last.user]) > DedupWindow + 1
  /\ parse_hash(photos[last.user][1].hash) = last.hash
  /\ photos[last.user][1].festival_id = "fest1"

\* ---------------------------------------------------------------------------
\* Submissions only, with every response kept: alice submits to fest1 and
\* fest3, bob to fest1, so that each gate of upload_photo rejects a request.
GateAccounts == {<<"alice", "fest1">>, <<"alice", "fest3">>, <<"bob", "fest1">>}

\* a submission carries an image the user has not submitted before, or the
\* user's first image again
GateImages(u) == {Image(Len(photos[u])), Image(0)}

InitGates == InitWith(StartTimes, TRUE)

GateSubmitPhoto == \E a \in GateAccounts, inside \in BOOLEAN :
                     \E h \in GateImages(a[1]) :
                       /\ upload_photo(a[1], a[2], inside, h)
                       /\ TotalPhotos(photos') <= MaxGatePhotos

NextGates ==
  \/ GateSubmitPhoto
  \/ Tick

SpecGates == InitGates /\ [][NextGates]_vars

\* ---------------------------------------------------------------------------
\* the user's photo records created in the trailing 60 seconds
RecentRecords(u) ==
  {i \in Indices(photos[u]) : utcnow - photos[u][i].created_at <= RateWindowMinutes}

RateAnswered == last'.op = "upload" /\ last'.res # "OutsideGeofence"

\* C12: a submission that passed the geofence is rejected with RateLimited
\* if and only if the user has 5 or more photo records created in the
\* trailing 60 seconds; only records count, not attempts.
C12_RateGate ==
  [][RateAnswered =>
       (last'.res = "RateLimited"
          <=> Cardinality(RecentRecords(last'.user)) >= RateLimitCount)]_vars

\* a submission was rejected for the rate with exactly 5 records in the
\* trailing 60 seconds and older records beside them
C12_RateLimitedBesideOlderPhotos ==
  /\ last.op = "upload" /\ last.res = "RateLimited"
  /\ Cardinality(RecentRecords(last.user)) = RateLimitCount
  /\ Len(photos[last.user]) > RateLimitCount

\* ---------------------------------------------------------------------------
\* C13: in the festival with budget 1,000,000, 1,000 points a photo and cap
\* 500,000, the 5th of 5 distinct photos a user submits within 60 seconds
\* fails with RateLimited: no accepted submission leaves the user with 5
\* records in the trailing 60 seconds.
C13_FifthSubmissionRateLimited ==
  (last.op = "upload" /\ last.festival = "fest3" /\ last.res = "ok")
    => Cardinality(RecentRecords(last.user)) < RateLimitCount

\* ---------------------------------------------------------------------------
UploadRejected == last'.op = "upload" /\ last'.res # "ok"

\* What a rejected submission leaves behind: the photo, coupon, pool and
\* entry tables as they were (so usedBudget too) and every summary row as it
\* was; at most an all-zero row of today for the user and festival is new.
RejectedUploadFrame ==
  LET u == last'.user
      f == last'.festival
      key == <<u, f, get_today>>
  IN /\ last'.res \in {"OutsideGeofence", "RateLimited", "DuplicateImage",
                       "CapExceeded", "BudgetExhausted"}
     /\ photos' = photos
     /\ coupons' = coupons
     /\ pools' = pools
     /\ entries' = entries
     /\ winners' = winners
     /\ scans' = scans
     /\ \A k \in SummaryKeys \ {key} : summaries'[k] = summaries[k]
     /\ \/ summaries'[key] = summaries[key]
        \/ /\ summaries[key] = <<>>
           /\ summaries'[key] =
                <<[total_pending |-> 0, total_active |-> 0, total_consumed |-> 0]>>

\* C17: a submission rejected at any of the five gates leaves the photo
\* records, every summary balance, usedBudget, the jackpot pool and every
\* JackpotEntry as they were; the only row it may add is an all-zero summary
\* row of today.
C17_RejectedUploadCommitsNothing == [][UploadRejected => RejectedUploadFrame]_vars

\* a submission was rejected for the budget on a day on which the user had
\* no summary row yet: the zero row is new, nothing else changed
C17_RejectedWithLazyRow ==
  /\ last.op = "upload" /\ last.res = "BudgetExhausted"
  /\ lazy > 0
  /\ summaries[<<last.user, last.festival, get_today>>] =
       <<[total_pending |-> 0, total_active |-> 0, total_consumed |-> 0]>>

\* ---------------------------------------------------------------------------
\* The priming settings of the repository's pool test, in units of 1,000:
\* seed 10,000, target 100,000, start percent 0.78 (as a percentage).
DEMO_JACKPOT_SEED == 10
DEMO_JACKPOT_TARGET == 100
DEMO_JACKPOT_START_PERCENT == 78
PrimedAmount ==
  Max(DEMO_JACKPOT_SEED, (DEMO_JACKPOT_TARGET * DEMO_JACKPOT_START_PERCENT) \div 100)

\* C14: priming is idempotent: whenever the pool of fest3 (budget 1,000,000,
\* never contributed to) has been touched by a jackpot request, once or
\* again, the pool row exists with seed_amount 10,000 and current_amount
\* max(seed, target x percent) = 78,000, and that amount is the answer.
C14_PoolPrimedOnTouch ==
  (last.op = "jackpot" /\ last.festival = "fest3") =>
    /\ pools["fest3"] # <<>>
    /\ pools["fest3"][1].seed_amount = DEMO_JACKPOT_SEED
    /\ pools["fest3"][1].current_amount = PrimedAmount
    /\ last.amount = PrimedAmount

\* ---------------------------------------------------------------------------
\* Submissions inside the geofence and draws of every account across a
\* change of ISO week, with every response kept, the rejections included.
InitDrawAudit == InitWith(JackpotStartTimes, TRUE)

DrawAuditSubmitPhoto == \E a \in Accounts, h \in Images :
                          /\ upload_photo(a[1], a[2], TRUE, h)
                          /\ TotalPhotos(photos') <= MaxPhotos

NextDrawAudit ==
  \/ DrawAuditSubmitPhoto
  \/ DrawJackpotAll
  \/ Tick

SpecDrawAudit == InitDrawAudit /\ [][NextDrawAudit]_vars

\* the JackpotEntry rows of the festival that carry the current week key
CurrentEntries(f) ==
  {k \in Indices(entries) :
     entries[k].festival_id = f /\ entries[k].week_key = week_key}

DrawAnswered == last'.op = "draw"

\* The contract of a draw that fails: with a pool, the answer is
\* NoParticipants exactly when no entry of the festival carries the current
\* week key; whatever the failure, every table is as it was.
FailedDrawContract ==
  LET f == last'.festival
  IN /\ pools[f] = <<>> => last'.res = "NoPool"
     /\ (pools[f] # <<>> /\ CurrentEntries(f) = {}) => last'.res = "NoParticipants"
     /\ last'.res = "NoParticipants" => (pools[f] # <<>> /\ CurrentEntries(f) = {})
     /\ last'.res # "ok" =>
          /\ pools' = pools
          /\ summaries' = summaries
          /\ winners' = winners
          /\ entries' = entries
          /\ photos' = photos
          /\ coupons' = coupons

StaleUser == "alice"
StaleFestival == "fest1"

StaleSubmitPhoto == \E inside \in BOOLEAN, h \in Images :
                      /\ upload_photo(StaleUser, StaleFestival, inside, h)
                      /\ TotalPhotos(photos') <= MaxStalePhotos
StaleBinScan == \E inside \in BOOLEAN : scan_bin(StaleUser, StaleFestival, inside)
StaleTick == tick(MaxStaleTicks)

NextStale ==
  \/ StaleSubmitPhoto
  \/ StaleBinScan
  \/ StaleTick

SpecStale == Init /\ [][NextStale]_vars

\* the user's photos that are PENDING and out of the activation window
StalePending(u) ==
  {i \in Indices(photos[u]) :
     /\ photos[u][i].status = PHOTO_STATUS_PENDING
     /\ utcnow - photos[u][i].created_at > PENDING_ACTIVATION_MINUTES}

\* the day of the summary an upload at time created_at credited its points to
CreditedDay(row) == day_of(row.created_at + KstOffsetMinutes)

\* total_pending of the summary of (u, f, d) in the table S
PendingOf(S, u, f, d) ==
  IF SummaryRows(S, u, f, d) = <<>> THEN 0 ELSE SummaryRows(S, u, f, d)[1].total_pending

\* What a step leaves of the stale PENDING photos: each is PENDING afterwards,
\* and each summary still holds, in total_pending, the points of the stale
\* PENDING photos that were credited to it.
StalePendingKept ==
  \A u \in Users :
    /\ \A i \in StalePending(u) : photos'[u][i].status = PHOTO_STATUS_PENDING
    /\ \A f \in Festivals, d \in Days :
         LET ids == {i \in StalePending(u) :
                       /\ photos[u][i].festival_id = f
                       /\ CreditedDay(photos[u][i]) = d}
         IN ids # {} => PendingOf(summaries', u, f, d) >= PointsOf(photos, u, ids)

\* C26: a photo still PENDING more than 30 minutes after its creation is not
\* turned ACTIVE by any later scan, and its points stay in the total_pending
\* of the summary they were credited to.
C26_StalePendingKept == [][StalePendingKept]_vars

\* the first half alone: a stale PENDING photo stays PENDING
StaleNeverActivated ==
  [][\A u \in Users : \A i \in StalePending(u) :
       photos'[u][i].status = PHOTO_STATUS_PENDING]_vars

\* the points of the PENDING photos of (u, f) are the total_pending of the
\* user's summaries of the festival, all days taken together
PendingAcrossDays ==
  \A u \in Users, f \in Festivals :
    LET ids == {i \in Indices(photos[u]) :
                  /\ photos[u][i].festival_id = f
                  /\ photos[u][i].status = PHOTO_STATUS_PENDING}
        days == {d \in Days : SummaryRows(summaries, u, f, d) # <<>>}
    IN SumOver(days, [d \in days |-> PendingOf(summaries, u, f, d)])
         = PointsOf(photos, u, ids)

\* ---------------------------------------------------------------------------
\* the three balances of all the summaries of (u, f), every day and row
LedgerOf(u, f) ==
  LET rows == {<<d, i>> \in Days \X (1..MaxLazyRows + 2) :
                 i \in Indices(SummaryRows(summaries, u, f, d))}
  IN SumOver(rows, [r \in rows |-> Total(SummaryRows(summaries, u, f, r[1])[r[2]])])

\* the points of all the photos of u in f
PhotoPoints(u, f) ==
  PointsOf(photos, u, {i \in Indices(photos[u]) : photos[u][i].festival_id = f})

\* the amounts of the JackpotWinner records of u in f
Winnings(u, f) ==
  LET won == {k \in Indices(winners) :
                winners[k].user_id = u /\ winners[k].festival_id = f}
  IN SumOver(won, [k \in won |-> winners[k].amount])

\* C27: with the operations executed one at a time, for every (user,
\* festival) the balances total_pending + total_active + total_consumed of
\* all the user's daily summaries add up to the points of the user's photos
\* in the festival plus the amounts of the user's JackpotWinner records.
C27_LedgerConserved ==
  \A u \in Users, f \in Festivals :
    LedgerOf(u, f) = PhotoPoints(u, f) + Winnings(u, f)

\* a user with an activated photo and a coupon has won a jackpot, and the
\* user's summaries of the festival span two days
C27_WinnerWithCoupon ==
  \E u \in Users, f \in Festivals :
    /\ Winnings(u, f) > 0
    /\ \E c \in BagToSet(coupons) : c.user_id = u /\ c.festival_id = f
    /\ \E i \in Indices(photos[u]) :
         photos[u][i].festival_id = f /\ photos[u][i].status = PHOTO_STATUS_ACTIVE
    /\ Cardinality({d \in Days : SummaryRows(summaries, u, f, d) # <<>>}) > 1

\* ---------------------------------------------------------------------------
\* What one step does to usedBudget, which is computed from the photos and
\* the coupons: a step that writes either leaves it within the budget, a
\* new photo and a new coupon had room before the step, and a scan and a
\* draw leave it as it was.
BudgetStep ==
  /\ (photos' # photos \/ coupons' # coupons) =>
       \A f \in Festivals :
         LET used == UsedBudget(f)
         IN /\ UsedBudget(f)' <= Festival[f].budget
            /\ (\E u \in Users : /\ Len(photos'[u]) > Len(photos[u])
                                 /\ photos'[u][Len(photos'[u])].festival_id = f)
                 => used + Festival[f].per_photo_point <= Festival[f].budget
            /\ (coupons' # coupons /\ last'.festival = f)
                 => used + last'.amount <= Festival[f].budget
  /\ (scans' # scans \/ winners' # winners) =>
       \A f \in Festivals : UsedBudget(f)' = UsedBudget(f)

\* C28: with the requests executed one at a time and the budget of a
\* festival fixed, usedBudget <= budget after every operation: a submission
\* is accepted only if usedBudget + per_photo_point <= budget, a coupon only
\* if usedBudget + amount <= budget, and a scan and a draw never change
\* usedBudget.
C28_BudgetKept == [][BudgetStep]_vars

\* after a scan and a draw the festival has no room left for another photo
C28_NoRoomAfterDraw ==
  \E f \in Festivals :
    /\ UsedBudget(f) + Festival[f].per_photo_point > Festival[f].budget
    /\ last.op = "draw" /\ last.res = "ok" /\ last.festival = f
    /\ BagToSet(scans) # {}

\* ---------------------------------------------------------------------------
\* One user earns points and redeems them in several coupons; the clock
\* reading that ends a code is one of two values.
CodeUser == "alice"
CodeFestival == "fest1"
CodeAmounts == {1, 2}
CodeNsDigits == {123456, 654321}

CodeSubmitPhoto == \E inside \in BOOLEAN, h \in Images :
                     /\ upload_photo(CodeUser, CodeFestival, inside, h)
                     /\ TotalPhotos(photos') <= MaxCodePhotos
CodeBinScan == \E inside \in BOOLEAN : scan_bin(CodeUser, CodeFestival, inside)
CodeIssueCoupon == \E amount \in CodeAmounts, ns6 \in CodeNsDigits :
                     /\ issue_coupon(CodeUser, CodeFestival, amount, ns6)
                     /\ BagCardinality(coupons') <= MaxCodeCoupons

NextCodes ==
  \/ CodeSubmitPhoto
  \/ CodeBinScan
  \/ CodeIssueCoupon
  \/ Tick

SpecCodes == Init /\ [][NextCodes]_vars

\* C25: redemption codes are unique: no two Coupon rows have the same code,
\* also when two coupons of the same amount are issued at times whose
\* nanosecond clocks agree in their last six digits.
C25_CodesUnique ==
  /\ \A c \in BagToSet(coupons) : CopiesIn(c, coupons) = 1
  /\ \A c1, c2 \in BagToSet(coupons) : c1 # c2 => c1.code # c2.code

\* ---------------------------------------------------------------------------
\* Submissions whose bytes are an image and submissions whose bytes are not,
\* with every response kept.
InitFiles == InitWith(StartTimes, TRUE)

FileSubmitPhoto == \E a \in Uploaders, inside \in BOOLEAN :
                     \E h \in GateImages(a[1]) :
                       /\ upload_photo(a[1], a[2], inside, h)
                       /\ files' <= MaxFiles
FileSubmitUnreadable == \E a \in Uploaders, inside \in BOOLEAN :
                          /\ upload_photo_unreadable(a[1], a[2], inside)
                          /\ files' <= MaxFiles

NextFiles ==
  \/ FileSubmitPhoto
  \/ FileSubmitUnreadable
  \/ Tick

SpecFiles == InitFiles /\ [][NextFiles]_vars

\* C24: when a submission fails at any step after the image bytes were
\* written, the stored file is deleted: after a rejected submission
\* UPLOAD_DIR holds no file without a photo record, that is, as many files as
\* there are TrashPhoto rows.
C24_NoOrphanFile == files = TotalPhotos(photos)

\* the gates that delete the file keep the count: a rejection by the dedup,
\* cap or budget gate leaves as many files as photo records
GateRejectionsCleanUp ==
  [][(last'.op = "upload"
      /\ last'.res \in {"DuplicateImage", "CapExceeded", "BudgetExhausted"})
     => files' = files]_vars

\* ---------------------------------------------------------------------------
\* Submissions and draws in the first days of January 2024 and, after the
\* clock has moved on to the last days of December 2024, again.
year_end ==
  /\ ticks = 0
  /\ now \in StartTimes
  /\ now' = now + YearEndMinutes
  /\ ticks' = ticks + 1
  /\ last' = None
  /\ UNCHANGED <<audit, files, tables, lazy, sess>>

YearSubmitPhoto == \E a \in Uploaders, h \in Images :
                     /\ upload_photo(a[1], a[2], TRUE, h)
                     /\ TotalPhotos(photos') <= MaxYearPhotos

NextYear ==
  \/ YearSubmitPhoto
  \/ DrawJackpot
  \/ year_end

SpecYear == Init /\ [][NextYear]_vars

\* the ISO week a time lies in, counted from the week of Monday 2024-01-01
IsoWeekOf(t) == t \div MinutesPerWeek

\* the user's accepted submissions to the festival in the ISO week of the
\* entry: the photo records created in that week (KST)
SubmissionsInWeek(u, f, w) ==
  Cardinality({i \in Indices(photos[u]) :
                 /\ photos[u][i].festival_id = f
                 /\ IsoWeekOf(photos[u][i].created_at + KstOffsetMinutes) = w})

\* the ISO week a key names: week wk[2] of the ISO year wk[1]
WeekNamed(wk) == (wk[1] - 2024) * IsoWeeksIn2024 + (wk[2] - 1)

\* C22: for each (user, festival, weekKey) the entry_count of the
\* JackpotEntry is the number of the user's accepted submissions to the
\* festival in that ISO week (1 after the first, one more with each further
\* one).
C22_EntryCountsWeek ==
  \A k \in Indices(entries) :
    LET e == entries[k]
    IN e.entry_count
         = SubmissionsInWeek(e.user_id, e.festival_id, WeekNamed(e.week_key))

\* by week key the count is right: an entry counts the submissions made
\* under its key
EntryCountsKey ==
  \A k \in Indices(entries) :
    LET e == entries[k]
    IN e.entry_count =
         Cardinality({i \in Indices(photos[e.user_id]) :
            /\ photos[e.user_id][i].festival_id = e.festival_id
            /\ week_key_at(photos[e.user_id][i].created_at + KstOffsetMinutes)
                 = e.week_key})

\* no step lowers an entry_count or removes an entry
EntryCountsGrow ==
  [][/\ Len(entries') >= Len(entries)
     /\ \A k \in Indices(entries) : entries'[k].entry_count >= entries[k].entry_count]_vars

\* ---------------------------------------------------------------------------
\* One user submits to a festival of positive and to one of negative
\* perPhotoPoint, scans and redeems; the jackpots of both are drawn.
PoolUser == "alice"
PoolFestivals == {"fest1", "fest4"}

PoolSubmitPhoto == \E f \in PoolFestivals, h \in Images :
                     /\ upload_photo(PoolUser, f, TRUE, h)
                     /\ TotalPhotos(photos') <= MaxPoolPhotos
PoolBinScan == \E f \in PoolFestivals : scan_bin(PoolUser, f, TRUE)
PoolIssueCoupon == \E f \in PoolFestivals, amount \in Amounts, ns6 \in NsDigits :
                     /\ issue_coupon(PoolUser, f, amount, ns6)
                     /\ BagCardinality(coupons') <= MaxCoupons
PoolDrawJackpot == \E f \in PoolFestivals : draw_jackpot(f)

NextPool ==
  \/ PoolSubmitPhoto
  \/ PoolBinScan
  \/ PoolIssueCoupon
  \/ PoolDrawJackpot
  \/ Tick

SpecPool == Init /\ [][NextPool]_vars

\* current_amount of the festival's pool in the table PL; a pool that does
\* not exist yet counts with the amount its row is created with
PoolAmount(PL, f) ==
  IF PL[f] = <<>> THEN NewJackpotPool.current_amount ELSE PL[f][1].current_amount

\* floor(perPhotoPoint x contributionRate) for the festival's pool
FloorContribution(f) ==
  LET pool == IF pools[f] = <<>> THEN NewJackpotPool ELSE pools[f][1]
  IN (Festival[f].per_photo_point * pool.rate_num) \div pool.rate_den

\* What one step does to the pools: an accepted submission raises the pool
\* of its festival by floor(perPhotoPoint x contributionRate), which is not
\* negative; a step that is not a draw lowers no pool; a scan and a coupon
\* change none.
PoolStep ==
  /\ \A f \in Festivals :
       /\ (\E u \in Users : /\ Len(photos'[u]) > Len(photos[u])
                            /\ photos'[u][Len(photos'[u])].festival_id = f)
            => /\ PoolAmount(pools', f) - PoolAmount(pools, f) = FloorContribution(f)
               /\ PoolAmount(pools', f) - PoolAmount(pools, f) >= 0
       /\ winners' = winners => PoolAmount(pools', f) >= PoolAmount(pools, f)
  /\ (scans' # scans \/ coupons' # coupons) => pools' = pools

\* C23: each accepted submission raises the festival's pool.current_amount
\* by exactly floor(perPhotoPoint x contributionRate) and never by a negative
\* amount; between two draws current_amount never decreases; scans and
\* coupons never change it.
C23_PoolContribution == [][PoolStep]_vars

====
